---- MODULE Spec2Model ----
(***************************************************************************)
(* Deposit intake of sonotxt: the payment_addresses registry, the deposits *)
(* table, the crediting transaction (credit_deposit), the reconciler sweep *)
(* (check_pending_deposits) and the account_credits / transactions ledger. *)
(* Every SQL statement that the code sends outside a transaction is one    *)
(* atomic step; the statements of a transaction become visible together at *)
(* its commit.                                                             *)
(***************************************************************************)
EXTENDS Integers, Sequences, FiniteSets, Bags, TLC

----------------------------------------------------------------------------
(* Bounds of the model *)

\* number of Uuid::new_v4() deposit ids handed out
MaxDeposits == 2

\* the clock runs from 0 to MaxNow (minutes)
MaxNow == 3

\* the transparent chain finalizes blocks 1 .. MaxHeight
MaxHeight == 3

\* a block carries 0 .. MaxExtrinsics extrinsics
MaxExtrinsics == 1

\* the block number of a chain_getBlock response is a string of
\* 0 .. MaxNumberLen bytes
MaxNumberLen == 3

\* callers running concurrently (HTTP handlers, listener tasks, instances)
Procs == {"p1", "p2"}

Accounts == {"a1", "a2"}

TxHashes == {"h1", "h2"}

Amounts == {10}

\* cost of one spending request (estimated_cost, publish_cost)
Costs == {4}

----------------------------------------------------------------------------
(* Program constants *)

\* auto-confirm after 2 minutes (placeholder)
ConfirmDelay == 2

\* default maximum addresses per user if not configured
DEFAULT_MAX_ADDRESSES == 5

\* AssetHubListener::new / PenumbraListener::new
max_addresses_per_user == DEFAULT_MAX_ADDRESSES

----------------------------------------------------------------------------
VARIABLES
    deposits,           \* table deposits: set of rows (id is the primary key)
    account_credits,    \* table account_credits: account -> [exists, balance]
    transactions,       \* table transactions: the append-only ledger
    payment_addresses,  \* table payment_addresses: chain -> bag of rows
    now,                \* wall clock, minutes
    nextId,             \* number of deposit ids generated so far
    seed_cfg,           \* config.deposit_wallet_seed: "valid", "invalid", "none"
    pc,                 \* position of every caller
    loc,                \* locals of every caller
    result,             \* what the last finished call of a caller returned
    history,            \* per chain: how the first address of the account was
                        \* made and how many rotate_address calls succeeded
    head,               \* finalized height of the transparent chain
    last_block,         \* `last_block` of every listener instance (in memory)
    blk,                \* the block a poll fetched: number of the finalized head
    ext_left,           \* extrinsics of the fetched block not yet processed
    scanned,            \* the blocks whose extrinsics a listener iterated over
    pen,                \* position of the task of PenumbraListener::run
    penumbra_rpc,       \* config.penumbra_rpc: "configured" or "none"
    pen_loaded,         \* `addresses` of PenumbraListener::run: the rows it read
    watched,            \* the tuples registered with listener.watch
    derived,            \* the derivations made so far: inputs and outputs
    vault,              \* the secrets in the vault directory: SecretId -> entry
    wallet_seed_env,    \* environment variable WALLET_SEED
    seed_io,            \* the last SeedManager call and the last seed stored
    free_tier_usage,    \* table free_tier_usage: ip_hash -> row
    today,              \* CURRENT_DATE, in days
    jobs,               \* table jobs: set of rows
    held                \* `job` of process_next_job: the job a worker claimed

\* the listener object of PenumbraListener::run and the configuration it reads
shieldvars == <<penumbra_rpc, pen_loaded, watched>>

\* the transparent-chain listener and the shielded-chain listener task
\* WalletDeriver and SeedManager
walletvars == <<derived, vault, wallet_seed_env, seed_io>>

\* the free tier of the tts route and the job queue of the worker
workvars == <<free_tier_usage, today, jobs, held>>

chainvars == <<head, last_block, blk, ext_left, scanned, pen, shieldvars,
               walletvars, workvars>>

vars == <<deposits, account_credits, transactions, payment_addresses, now,
          nextId, seed_cfg, pc, loc, result, history, chainvars>>

----------------------------------------------------------------------------
(* Storage helpers *)

RECURSIVE SumAmounts(_, _)
SumAmounts(txs, a) ==
    IF txs = <<>> THEN 0
    ELSE (IF Head(txs).account_id = a THEN Head(txs).amount ELSE 0)
         + SumAmounts(Tail(txs), a)

\* the rows of transactions written for a tx_hash on one of the chains
LedgerRows(txs, h, chains) ==
    {i \in DOMAIN txs : txs[i].tx_hash = h /\ txs[i].chain \in chains}

\* SELECT EXISTS(SELECT 1 FROM deposits WHERE tx_hash = $1)
ExistsByTxHash(deps, h) == \E d \in deps : d.tx_hash = h

\* a deposits table without a uniqueness constraint admits every INSERT
DepositsUnconstrained(deps, h) == TRUE

\* the storage-level uniqueness of deposits.tx_hash: an INSERT is admitted
\* only when no row has the new row's tx_hash
DepositsTxHashUnique(deps, h) == ~ExistsByTxHash(deps, h)

\* record_deposit and the Stripe handler: .fetch_one(db).await.unwrap_or(false)
ExistsOrFalse(deps, h, failed) == IF failed THEN FALSE ELSE ExistsByTxHash(deps, h)

DepositRow(id, a, chain, h, amt, st, t) ==
    [id |-> id, account_id |-> a, chain |-> chain, tx_hash |-> h,
     amount |-> amt, status |-> st, created_at |-> t]

\* UPDATE deposits SET status = 'credited', credited_at = NOW() WHERE id = $1
MarkCredited(deps, id) ==
    {IF d.id = id THEN [d EXCEPT !.status = "credited"] ELSE d : d \in deps}

\* UPDATE deposits SET status = 'confirmed', confirmations = 1 WHERE id = $1
MarkConfirmed(deps, id) ==
    {IF d.id = id THEN [d EXCEPT !.status = "confirmed"] ELSE d : d \in deps}

\* UPDATE account_credits SET balance = balance + $1 WHERE account_id = $2
AddBalance(cr, a, amt) ==
    [cr EXCEPT ![a].balance = IF cr[a].exists THEN @ + amt ELSE @]

\* INSERT INTO transactions (..., 'purchase', ..., chain, tx_hash, deposit_id)
LogTransaction(txs, a, amt, chain, h, id) ==
    Append(txs, [account_id |-> a, amount |-> amt, type |-> "purchase",
                 chain |-> chain, tx_hash |-> h, deposit_id |-> id])


----------------------------------------------------------------------------
(* credit_deposit: one database transaction of three statements *)

CreditPcs == {"cd_begin", "cd_status", "cd_balance", "cd_ledger", "cd_commit"}

CreditNextPc(step) ==
    CASE step = "cd_begin"   -> "cd_status"
      [] step = "cd_status"  -> "cd_balance"
      [] step = "cd_balance" -> "cd_ledger"
      [] step = "cd_ledger"  -> "cd_commit"
      [] OTHER               -> "cd_done"

\* the same statements sent on the pool, each one committed by itself
CreditStepAutocommit(step, d, cr, txs, id, a, amt, chain, h) ==
    CASE step = "cd_status"  -> <<MarkCredited(d, id), cr, txs>>
      [] step = "cd_balance" -> <<d, AddBalance(cr, a, amt), txs>>
      [] step = "cd_ledger"  -> <<d, cr, LogTransaction(txs, a, amt, chain, h, id)>>
      [] OTHER               -> <<d, cr, txs>>

\* what a successful step of credit_deposit makes visible to other sessions:
\* the three statements run on `tx`, so nothing before tx.commit()
CreditStepEffect(step, d, cr, txs, id, a, amt, chain, h) ==
    IF step = "cd_commit"
    THEN <<MarkCredited(d, id), AddBalance(cr, a, amt),
           LogTransaction(txs, a, amt, chain, h, id)>>
    ELSE <<d, cr, txs>>

----------------------------------------------------------------------------
(* Callers *)

NoLoc == [ip_hash |-> "none", op |-> "none", account_id |-> "a1", tx_hash |-> "h1", amount |-> 0,
          chain |-> "none", deposit_id |-> 0, todo |-> {}, cd |-> "none",
          idx |-> 0]

Call(p, op, a, h, amt, chain) ==
    [NoLoc EXCEPT !.op = op, !.account_id = a, !.tx_hash = h,
                  !.amount = amt, !.chain = chain]

\* a call returns: the caller is idle again and its result is recorded
Return(p, l, r) ==
    /\ pc' = [pc EXCEPT ![p] = "idle"]
    /\ loc' = [loc EXCEPT ![p] = [NoLoc EXCEPT !.op = l.op, !.tx_hash = l.tx_hash,
                                               !.chain = l.chain, !.idx = l.idx]]
    /\ result' = [result EXCEPT ![p] = r]

Goto(p, l, label) ==
    /\ pc' = [pc EXCEPT ![p] = label]
    /\ loc' = [loc EXCEPT ![p] = l]
    /\ result' = [result EXCEPT ![p] = IF pc[p] = "idle" THEN "running" ELSE @]

ManualChains == {"polkadot_assethub", "penumbra"}

\* the chains that have a deposit address registry
AddrChains == {"polkadot_assethub", "penumbra"}

\* callers that will still draw a deposit id with Uuid::new_v4()
InsertPcs == {"rd_insert", "od_check", "od_insert", "st_insert"}

IdsLeft == nextId + Cardinality({q \in Procs : pc[q] \in InsertPcs}) < MaxDeposits

----------------------------------------------------------------------------
(* AssetHubListener::record_deposit, PenumbraListener::record_deposit *)

\* the call and its existence check
RecordDeposit(p, chain, a, h, amt) ==
    /\ pc[p] = "idle"
    /\ IdsLeft
    /\ \E failed \in BOOLEAN :
         IF ExistsOrFalse(deposits, h, failed)
         THEN Return(p, Call(p, "record_deposit", a, h, amt, chain),
                     "deposit already recorded")
         ELSE Goto(p, Call(p, "record_deposit", a, h, amt, chain), "rd_insert")
    /\ UNCHANGED <<deposits, account_credits, transactions, payment_addresses,
                   now, nextId, seed_cfg, history, chainvars>>

\* INSERT INTO deposits (...) VALUES (..., 'pending')
RecordDepositInsert(p) ==
    /\ pc[p] = "rd_insert"
    /\ nextId' = nextId + 1
    /\ \/ /\ DepositsTxHashUnique(deposits, loc[p].tx_hash)
          /\ deposits' = deposits \cup
               {DepositRow(nextId + 1, loc[p].account_id, loc[p].chain,
                           loc[p].tx_hash, loc[p].amount, "pending", now)}
          /\ Return(p, [loc[p] EXCEPT !.deposit_id = nextId + 1], "ok")
       \/ /\ ~DepositsTxHashUnique(deposits, loc[p].tx_hash)
          /\ UNCHANGED deposits
          /\ Return(p, loc[p], "internal: duplicate key")
       \/ /\ UNCHANGED deposits
          /\ Return(p, loc[p], "internal: storage")
    /\ UNCHANGED <<account_credits, transactions, payment_addresses, now, seed_cfg,
                   history, chainvars>>


----------------------------------------------------------------------------
(* PenumbraDepositHandler::on_deposit *)

\* the sub-index (diversifier index) hwpay derives for an account and index
PenumbraIndex(a, i) == (IF a = "a1" THEN 100 ELSE 200) + i

\* the sub-indexes notes arrive with: one that is registered in the initial
\* payment_addresses and one that is not
NoteIndexes == {PenumbraIndex("a1", 0), PenumbraIndex("a2", 0)}

\* a lookup that leaves the sub-index out: any account with a penumbra row
AccountsOfAnyRow(tbl, s) == {r.account_id : r \in BagToSet(tbl["penumbra"])}

\* SELECT account_id FROM payment_addresses
\* WHERE chain = 'penumbra' AND penumbra_index = $1
AccountsByPenumbraIndex(tbl, s) ==
    {r.account_id : r \in {q \in BagToSet(tbl["penumbra"]) : q.penumbra_index = s}}

\* the callback and its account lookup; idx holds deposit.derivation_index,
\* the sub-index the note came with
OnDeposit(p, s, h, amt) ==
    /\ pc[p] = "idle"
    /\ IdsLeft
    /\ LET l(a) == [Call(p, "on_deposit", a, h, amt, "penumbra") EXCEPT !.idx = s]
       IN \/ Return(p, l("a1"), "err: storage")
          \/ /\ AccountsByPenumbraIndex(payment_addresses, s) = {}
             /\ Return(p, l("a1"), "ok: unknown index")
          \/ \E a \in AccountsByPenumbraIndex(payment_addresses, s) :
               Goto(p, l(a), "od_check")
    /\ UNCHANGED <<deposits, account_credits, transactions, payment_addresses,
                   now, nextId, seed_cfg, history, chainvars>>

\* check for duplicate deposit: .fetch_one(&self.db).await?
OnDepositCheck(p) ==
    /\ pc[p] = "od_check"
    /\ \/ Return(p, loc[p], "err: storage")
       \/ /\ ExistsByTxHash(deposits, loc[p].tx_hash)
          /\ Return(p, loc[p], "ok: duplicate")
       \/ /\ ~ExistsByTxHash(deposits, loc[p].tx_hash)
          /\ Goto(p, loc[p], "od_insert")
    /\ UNCHANGED <<deposits, account_credits, transactions, payment_addresses,
                   now, nextId, seed_cfg, history, chainvars>>

\* a failed INSERT also goes on to credit_deposit
InsertThenAlways(inserted) == "cd_begin"

\* .execute(&self.db).await?  -- only a successful INSERT reaches credit_deposit
InsertThen(inserted) == IF inserted THEN "cd_begin" ELSE "idle"

\* INSERT INTO deposits (...) VALUES (..., 'confirmed', 1, $5), then the
\* call of credit_deposit; op is "on_deposit" or "stripe"
ConfirmedInsert(p, at, errname) ==
    /\ pc[p] = at
    /\ nextId' = nextId + 1
    /\ \E outcome \in {"ok", "duplicate key", "storage"} :
         /\ (outcome = "ok") => DepositsTxHashUnique(deposits, loc[p].tx_hash)
         /\ (outcome = "duplicate key") => ~DepositsTxHashUnique(deposits, loc[p].tx_hash)
         /\ deposits' = IF outcome = "ok"
                        THEN deposits \cup
                             {DepositRow(nextId + 1, loc[p].account_id, loc[p].chain,
                                         loc[p].tx_hash, loc[p].amount, "confirmed", now)}
                        ELSE deposits
         /\ IF InsertThen(outcome = "ok") = "cd_begin"
            THEN Goto(p, [loc[p] EXCEPT !.deposit_id = nextId + 1], "cd_begin")
            ELSE Return(p, loc[p], errname \o outcome)
    /\ UNCHANGED <<account_credits, transactions, payment_addresses, now, seed_cfg,
                   history, chainvars>>

OnDepositInsert(p) == ConfirmedInsert(p, "od_insert", "err: ")

----------------------------------------------------------------------------
(* StripeService::handle_checkout_complete (routes::payments has the same
   statements) *)

Stripe(p, a, h, amt) ==
    /\ pc[p] = "idle"
    /\ IdsLeft
    /\ \E failed \in BOOLEAN :
         IF ExistsOrFalse(deposits, h, failed)
         THEN Return(p, Call(p, "stripe", a, h, amt, "stripe"), "ok: duplicate")
         ELSE Goto(p, Call(p, "stripe", a, h, amt, "stripe"), "st_insert")
    /\ UNCHANGED <<deposits, account_credits, transactions, payment_addresses,
                   now, nextId, seed_cfg, history, chainvars>>

StripeInsert(p) == ConfirmedInsert(p, "st_insert", "internal: ")


----------------------------------------------------------------------------
(* AssetHubListener::check_pending_deposits, the reconciler sweep *)

\* SELECT id, account_id, amount, tx_hash FROM deposits
\* WHERE chain = 'polkadot_assethub' AND status = 'pending'
PendingAssetHub(deps) ==
    {d.id : d \in {e \in deps : e.chain = "polkadot_assethub" /\ e.status = "pending"}}

DepositById(deps, id) == CHOOSE d \in deps : d.id = id

\* a sweep without the age test
ConfirmationPolicyNone(t, created) == TRUE

\* chrono::Utc::now() - created > chrono::Duration::minutes(2)
ConfirmationPolicyMet(t, created) == t - created > ConfirmDelay

\* the call and the SELECT of the pending deposits
check_pending_deposits(p) ==
    /\ pc[p] = "idle"
    /\ \/ Return(p, [NoLoc EXCEPT !.op = "sweep"], "swept: select failed")
       \/ Goto(p, [NoLoc EXCEPT !.op = "sweep", !.todo = PendingAssetHub(deposits)],
               "sw_next")
    /\ UNCHANGED <<deposits, account_credits, transactions, payment_addresses,
                   now, nextId, seed_cfg, history>>

\* a listener instance reaches process_extrinsic, which runs the sweep
Sweep(p) ==
    /\ check_pending_deposits(p)
    /\ UNCHANGED chainvars

\* one iteration of `for (deposit_id, account_id, amount, tx_hash) in pending`
\* up to the age test
SweepNext(p) ==
    /\ pc[p] = "sw_next"
    /\ IF loc[p].todo = {}
       THEN Return(p, loc[p], "swept")
       ELSE \E id \in loc[p].todo :
              LET rest == [loc[p] EXCEPT !.todo = @ \ {id}]
                  d == DepositById(deposits, id)
              IN \/ Goto(p, rest, "sw_next")        \* Err(_) => continue
                 \/ IF ConfirmationPolicyMet(now, d.created_at)
                    THEN Goto(p, [rest EXCEPT !.deposit_id = id,
                                              !.account_id = d.account_id,
                                              !.amount = d.amount,
                                              !.tx_hash = d.tx_hash,
                                              !.chain = "polkadot_assethub",
                                              !.cd = "none"],
                              "sw_confirm")
                    ELSE Goto(p, rest, "sw_next")
    /\ UNCHANGED <<deposits, account_credits, transactions, payment_addresses,
                   now, nextId, seed_cfg, history, chainvars>>

\* let _ = UPDATE deposits SET status = 'confirmed' ... WHERE id = $1
SweepConfirm(p) ==
    /\ pc[p] = "sw_confirm"
    /\ \/ deposits' = MarkConfirmed(deposits, loc[p].deposit_id)
       \/ UNCHANGED deposits                       \* the error is dropped
    /\ Goto(p, loc[p], "cd_begin")
    /\ UNCHANGED <<account_credits, transactions, payment_addresses, now,
                   nextId, seed_cfg, history, chainvars>>

----------------------------------------------------------------------------
(* the steps of credit_deposit, for whichever caller is inside it *)

\* after credit_deposit returned: the sweep logs an error and goes on, the
\* other callers return the Result
AfterCredit(p, l) ==
    IF l.op = "sweep"
    THEN Goto(p, l, "sw_next")
    ELSE Return(p, l, IF l.cd = "ok" THEN "ok" ELSE "err: credit_deposit " \o l.cd)

CreditStep(p) ==
    /\ pc[p] \in CreditPcs
    /\ \/ /\ UNCHANGED <<deposits, account_credits, transactions>>
          /\ AfterCredit(p, [loc[p] EXCEPT !.cd = pc[p]])     \* Err at this step
       \/ LET l == loc[p]
              e == CreditStepEffect(pc[p], deposits, account_credits, transactions,
                                    l.deposit_id, l.account_id, l.amount,
                                    l.chain, l.tx_hash)
          IN /\ deposits' = e[1]
             /\ account_credits' = e[2]
             /\ transactions' = e[3]
             /\ IF pc[p] = "cd_commit"
                THEN AfterCredit(p, [l EXCEPT !.cd = "ok"])
                ELSE Goto(p, l, CreditNextPc(pc[p]))
    /\ UNCHANGED <<payment_addresses, now, nextId, seed_cfg, history, chainvars>>

----------------------------------------------------------------------------
(* time *)

Tick ==
    /\ now < MaxNow
    /\ now' = now + 1
    /\ UNCHANGED <<deposits, account_credits, transactions, payment_addresses,
                   nextId, seed_cfg, pc, loc, result,
                   history, chainvars>>

----------------------------------------------------------------------------
(* The deposit pipeline *)

AddressRow(a, chain, i, active) ==
    [account_id |-> a, chain |-> chain, derivation_index |-> i,
     penumbra_index |-> IF chain = "penumbra" THEN PenumbraIndex(a, i) ELSE -1,
     is_active |-> active]

\* the listeners at process start: `let mut last_block: u64 = 0`, the
\* penumbra task at the first line of run() with a listener that watches
\* nothing yet
InitListenerTasks ==
    /\ head = 1
    /\ last_block = [p \in Procs |-> 0]
    /\ blk = [p \in Procs |-> 0]
    /\ ext_left = [p \in Procs |-> 0]
    /\ scanned = {}
    /\ pen = "start"
    /\ pen_loaded = {}
    /\ watched = {}

\* a seed of len bytes, every byte the same
SeedBytes(len, byte) == [len |-> len, byte |-> byte]

\* an entry of the vault: no secret, or a secret sealed under a password
NoSecret == [present |-> FALSE, seed |-> SeedBytes(0, 0), password |-> "none"]

\* the secrets the vault can hold
SecretIds == {"WalletSeed", "ApiKey"}

\* SeedManager::new and an empty vault directory; no derivation made yet
InitWalletIdle ==
    /\ derived = {}
    /\ vault = [id \in SecretIds |-> NoSecret]
    /\ seed_io = [op |-> "none", password |-> "none", result |-> "none",
                  out |-> SeedBytes(0, 0), stored |-> NoSecret]

\* the ip hashes free-tier requests come from
IpHashes == {"ip1", "ip2"}

\* no free-tier request was made and no job was submitted yet
InitWork ==
    /\ free_tier_usage = [ip \in IpHashes |->
                             [exists |-> FALSE, chars_used |-> 0, last_reset |-> 0]]
    /\ today = 0
    /\ jobs = {}
    /\ held = [p \in Procs |-> 0]

InitChain ==
    /\ InitListenerTasks
    /\ InitWalletIdle
    /\ wallet_seed_env = "unset"
    /\ InitWork

InitProcs ==
    /\ pc = [p \in Procs |-> "idle"]
    /\ loc = [p \in Procs |-> NoLoc]
    /\ result = [p \in Procs |-> "none"]
    /\ history = [c \in AddrChains |->
            [first |-> IF payment_addresses[c] = EmptyBag THEN "none" ELSE "get",
             rotations |-> 0]]

\* config.penumbra_rpc: Option<String>
RpcConfigs == {"configured", "none"}

InitCallers ==
    /\ InitProcs
    /\ InitChain
    /\ penumbra_rpc = "configured"

InitDeposit ==
    /\ deposits = {}
    /\ account_credits = [a \in Accounts |-> [exists |-> a = "a1", balance |-> 0]]
    /\ transactions = <<>>
    /\ payment_addresses = [c \in AddrChains |->
            IF c = "penumbra" THEN SetToBag({AddressRow("a1", c, 0, TRUE)})
            ELSE EmptyBag]
    /\ now = 0
    /\ nextId = 0
    /\ seed_cfg = "valid"
    /\ InitCallers

\* intake: the three entry points that create deposits rows, and crediting
NextDeposit ==
    \/ \E p \in Procs, c \in ManualChains, a \in Accounts, h \in TxHashes, m \in Amounts :
         RecordDeposit(p, c, a, h, m)
    \/ \E p \in Procs : RecordDepositInsert(p)
    \/ \E p \in Procs, s \in NoteIndexes, h \in TxHashes, m \in Amounts :
         OnDeposit(p, s, h, m)
    \/ \E p \in Procs : OnDepositCheck(p)
    \/ \E p \in Procs : OnDepositInsert(p)
    \/ \E p \in Procs, a \in Accounts, h \in TxHashes, m \in Amounts : Stripe(p, a, h, m)
    \/ \E p \in Procs : StripeInsert(p)
    \/ \E p \in Procs : CreditStep(p)

SpecDeposit == InitDeposit /\ [][NextDeposit]_vars

\* reconciliation: manual reports on the transparent chain, the sweep of every
\* listener instance, crediting, and the clock
NextSweep ==
    \/ \E p \in Procs, a \in Accounts, h \in TxHashes, m \in Amounts :
         RecordDeposit(p, "polkadot_assethub", a, h, m)
    \/ \E p \in Procs : RecordDepositInsert(p)
    \/ \E p \in Procs : Sweep(p)
    \/ \E p \in Procs : SweepNext(p)
    \/ \E p \in Procs : SweepConfirm(p)
    \/ \E p \in Procs : CreditStep(p)
    \/ Tick

SpecSweep == InitDeposit /\ [][NextSweep]_vars


----------------------------------------------------------------------------
(* The address registry: get_deposit_address, rotate_address and
   derive_and_store_address of AssetHubListener and PenumbraListener *)

AddrAccounts == {"a1"}

SeedConfigs == {"valid", "invalid", "none"}

\* the distinct rows of an account on a chain (a row may be stored twice)
RowsOf(tbl, a, chain) == {r \in BagToSet(tbl[chain]) : r.account_id = a}

ActiveRows(tbl, a, chain) == {r \in RowsOf(tbl, a, chain) : r.is_active}

RECURSIVE CopiesOfAll(_, _)
CopiesOfAll(B, S) ==
    IF S = {} THEN 0
    ELSE LET r == CHOOSE x \in S : TRUE
         IN CopiesIn(r, B) + CopiesOfAll(B, S \ {r})

\* SELECT COUNT(*) FROM payment_addresses WHERE account_id = $1 AND chain = ..
count_addresses(tbl, a, chain) == CopiesOfAll(tbl[chain], RowsOf(tbl, a, chain))

\* SELECT MAX(derivation_index) ...; max_index.unwrap_or(-1) + 1
NewIndex(tbl, a, chain) ==
    LET idxs == {r.derivation_index : r \in RowsOf(tbl, a, chain)}
    IN IF idxs = {} THEN 0
       ELSE 1 + (CHOOSE m \in idxs : \A k \in idxs : k <= m)

\* a rotation that removes the old rows of the account
DeactivateByDelete(tbl, a, chain) ==
    LET B == tbl[chain]
        keep == {r \in BagToSet(B) : r.account_id # a}
    IN [tbl EXCEPT ![chain] = [r \in keep |-> CopiesIn(r, B)]]

\* UPDATE payment_addresses SET is_active = false WHERE account_id = $1 AND chain = ..
Deactivate(tbl, a, chain) ==
    LET B == tbl[chain]
        Off(r) == IF r.account_id = a THEN [r EXCEPT !.is_active = FALSE] ELSE r
        T == {Off(r) : r \in BagToSet(B)}
    IN [tbl EXCEPT ![chain] =
           [t \in T |-> CopiesOfAll(B, {r \in BagToSet(B) : Off(r) = t})]]

\* the wallet of derive_and_store_address: "ok" or the error it returns.
\* AssetHub: from_seed_hex(seed).or_else(|_| from_mnemonic(seed)), so only a
\* missing seed fails; Penumbra: hex::decode / from_seed must succeed
WalletFor(chain, cfg) ==
    IF cfg = "none" THEN "internal: no wallet seed configured"
    ELSE IF cfg = "invalid" /\ chain = "penumbra" THEN "internal: invalid wallet seed"
    ELSE "ok"

\* The registries of the two chains share no row and no statement, so a
\* behaviour exercises one of them: a call is taken for a chain only while the
\* other chain has no row and no call in progress.
OneRegistry(chain) ==
    \A c \in AddrChains \ {chain} :
        /\ payment_addresses[c] = EmptyBag
        /\ \A q \in Procs : pc[q] # "idle" => loc[q].chain # c

\* the call and SELECT address, derivation_index ... AND is_active = true
GetDepositAddress(p, chain, a) ==
    /\ pc[p] = "idle"
    /\ OneRegistry(chain)
    /\ LET l == [NoLoc EXCEPT !.op = "get_deposit_address", !.account_id = a,
                              !.chain = chain]
       IN \/ Return(p, l, "internal: storage")
          \/ \E i \in ActiveRows(payment_addresses, a, chain) :
               Return(p, [l EXCEPT !.idx = i.derivation_index],
                      "ok: existing")
          \/ /\ ActiveRows(payment_addresses, a, chain) = {}
             /\ Goto(p, [l EXCEPT !.idx = 0], "ds_insert")
    /\ UNCHANGED <<deposits, account_credits, transactions, payment_addresses,
                   now, nextId, seed_cfg, history, chainvars>>

Digits == <<"0", "1", "2", "3", "4", "5", "6", "7", "8", "9">>

RECURSIVE Dec(_)
\* format!("{}", n) of a non-negative integer
Dec(n) == IF n < 10 THEN Digits[n + 1] ELSE Dec(n \div 10) \o Digits[(n % 10) + 1]

\* format!("address limit reached ({}/{})", count, self.max_addresses_per_user)
LimitError(count, max) ==
    "address limit reached (" \o Dec(count) \o "/" \o Dec(max) \o ")"

\* a limit test that lets the account reach one address more
AtLimitStrict(count, max) == count > max

\* if count >= self.max_addresses_per_user
AtLimit(count, max) == count >= max

\* the call and the address-limit check
RotateAddress(p, chain, a) ==
    /\ pc[p] = "idle"
    /\ OneRegistry(chain)
    /\ LET l == [NoLoc EXCEPT !.op = "rotate_address", !.account_id = a,
                              !.chain = chain]
       IN \/ Return(p, l, "internal: storage")
          \/ LET count == count_addresses(payment_addresses, a, chain)
             IN IF AtLimit(count, max_addresses_per_user)
                THEN Return(p, l, LimitError(count, max_addresses_per_user))
                ELSE Goto(p, l, "ro_max")
    /\ UNCHANGED <<deposits, account_credits, transactions, payment_addresses,
                   now, nextId, seed_cfg, history, chainvars>>

\* get current max derivation index
RotateMaxIndex(p) ==
    /\ pc[p] = "ro_max"
    /\ \/ Return(p, loc[p], "internal: storage")
       \/ Goto(p, [loc[p] EXCEPT !.idx = NewIndex(payment_addresses,
                                                 loc[p].account_id, loc[p].chain)],
               "ro_deactivate")
    /\ UNCHANGED <<deposits, account_credits, transactions, payment_addresses,
                   now, nextId, seed_cfg, history, chainvars>>

\* deactivate all current addresses (sent on the pool: committed at once)
RotateDeactivate(p) ==
    /\ pc[p] = "ro_deactivate"
    /\ \/ /\ UNCHANGED payment_addresses
          /\ Return(p, loc[p], "internal: storage")
       \/ /\ payment_addresses' = Deactivate(payment_addresses, loc[p].account_id,
                                             loc[p].chain)
          /\ Goto(p, loc[p], "ds_insert")
    /\ UNCHANGED <<deposits, account_credits, transactions, now, nextId, seed_cfg,
                   history, chainvars>>

\* what table payment_addresses accepts in an INSERT: no uniqueness rule is
\* stated for its rows, so a second row of the same account, chain and
\* derivation_index is stored
AddressesAccept(tbl, a, chain, i) == TRUE

\* bookkeeping of the successful calls: which call made the first address of
\* the account on the chain, and the number of successful rotations since
Recorded(h, chain, op) ==
    [h EXCEPT ![chain] =
        [first |-> IF @.first # "none" THEN @.first
                   ELSE IF op = "rotate_address" THEN "rotate" ELSE "get",
         rotations |-> IF op = "rotate_address" THEN @.rotations + 1
                       ELSE @.rotations]]

\* derive_and_store_address: build the wallet, derive, INSERT ... is_active true
DeriveAndStore(p) ==
    /\ pc[p] = "ds_insert"
    /\ LET w == WalletFor(loc[p].chain, seed_cfg)
       IN IF w # "ok"
          THEN /\ UNCHANGED payment_addresses
               /\ Return(p, loc[p], w)
          ELSE \/ /\ UNCHANGED payment_addresses
                  /\ Return(p, loc[p], "internal: storage")
               \/ /\ ~AddressesAccept(payment_addresses, loc[p].account_id,
                                      loc[p].chain, loc[p].idx)
                  /\ UNCHANGED payment_addresses
                  /\ Return(p, loc[p], "internal: duplicate key")
               \/ /\ AddressesAccept(payment_addresses, loc[p].account_id,
                                     loc[p].chain, loc[p].idx)
                  /\ payment_addresses' =
                       [payment_addresses EXCEPT ![loc[p].chain] =
                           @ (+) SetToBag({AddressRow(loc[p].account_id, loc[p].chain,
                                                      loc[p].idx, TRUE)})]
                  /\ Return(p, loc[p], "ok: derived")
    /\ history' = IF payment_addresses' = payment_addresses THEN history
                  ELSE Recorded(history, loc[p].chain, loc[p].op)
    /\ UNCHANGED <<deposits, account_credits, transactions, now, nextId, seed_cfg,
                   chainvars>>

RECURSIVE SortedDesc(_)
\* the rows of a bag, every copy, ORDER BY derivation_index DESC
SortedDesc(B) ==
    IF B = EmptyBag THEN <<>>
    ELSE LET r == CHOOSE x \in BagToSet(B) :
                      \A y \in BagToSet(B) : y.derivation_index <= x.derivation_index
         IN <<r>> \o SortedDesc(B (-) SetToBag({r}))

\* SELECT address, derivation_index, is_active FROM payment_addresses
\* WHERE account_id = $1 AND chain = 'polkadot_assethub'
\* ORDER BY derivation_index DESC
list_addresses(tbl, a) ==
    LET B == tbl["polkadot_assethub"]
        mine == {r \in BagToSet(B) : r.account_id = a}
    IN SortedDesc([r \in mine |-> CopiesIn(r, B)])

InitAddr ==
    /\ deposits = {}
    /\ account_credits = [a \in Accounts |-> [exists |-> a = "a1", balance |-> 0]]
    /\ transactions = <<>>
    /\ payment_addresses = [c \in AddrChains |-> EmptyBag]
    /\ now = 0
    /\ nextId = 0
    /\ seed_cfg \in SeedConfigs
    /\ InitCallers

NextAddr ==
    \/ \E p \in Procs, c \in AddrChains, a \in AddrAccounts : GetDepositAddress(p, c, a)
    \/ \E p \in Procs, c \in AddrChains, a \in AddrAccounts : RotateAddress(p, c, a)
    \/ \E p \in Procs : RotateMaxIndex(p)
    \/ \E p \in Procs : RotateDeactivate(p)
    \/ \E p \in Procs : DeriveAndStore(p)

SpecAddr == InitAddr /\ [][NextAddr]_vars


----------------------------------------------------------------------------
(* Spending: routes::api::process and routes::vault::publish_item *)

\* SELECT balance FROM account_credits WHERE account_id = $1, .unwrap_or(0.0)
BalanceOf(cr, a) == IF cr[a].exists THEN cr[a].balance ELSE 0

\* UPDATE account_credits SET balance = balance - $1
\* WHERE account_id = $2 AND balance >= $1   (rows_affected)
ReserveRows(cr, a, cost) == IF cr[a].exists /\ cr[a].balance >= cost THEN 1 ELSE 0

\* UPDATE account_credits SET balance = balance - $1 WHERE account_id = $2
Deduct(cr, a, cost) ==
    [cr EXCEPT ![a].balance = IF cr[a].exists THEN @ - cost ELSE @]

\* process: the call and its balance check
Process(p, a, cost) ==
    /\ pc[p] = "idle"
    /\ LET l == [NoLoc EXCEPT !.op = "process", !.account_id = a, !.amount = cost]
       IN \/ Return(p, l, "internal: storage")
          \/ IF BalanceOf(account_credits, a) < cost
             THEN Return(p, l, "insufficient balance")
             ELSE Goto(p, l, "pr_reserve")
    /\ UNCHANGED <<deposits, account_credits, transactions, payment_addresses,
                   now, nextId, seed_cfg, history, chainvars>>

\* process: begin, the guarded UPDATE, INSERT INTO jobs, commit.  The UPDATE
\* holds the row lock until the commit, so its guard and its effect are one step
ProcessReserve(p) ==
    /\ pc[p] = "pr_reserve"
    /\ \/ /\ UNCHANGED account_credits
          /\ Return(p, loc[p], "internal: storage")
       \/ IF ReserveRows(account_credits, loc[p].account_id, loc[p].amount) = 0
          THEN /\ UNCHANGED account_credits
               /\ Return(p, loc[p], "insufficient balance")
          ELSE /\ account_credits' = Deduct(account_credits, loc[p].account_id,
                                            loc[p].amount)
               /\ Return(p, loc[p], "ok")
    /\ UNCHANGED <<deposits, transactions, payment_addresses, now, nextId, seed_cfg,
                   history, chainvars>>

\* publish_item: the call and its balance check
PublishItem(p, a, cost) ==
    /\ pc[p] = "idle"
    /\ LET l == [NoLoc EXCEPT !.op = "publish_item", !.account_id = a, !.amount = cost]
       IN \/ Return(p, l, "internal: storage")
          \/ IF BalanceOf(account_credits, a) < cost
             THEN Return(p, l, "insufficient balance")
             ELSE Goto(p, l, "pb_deduct")
    /\ UNCHANGED <<deposits, account_credits, transactions, payment_addresses,
                   now, nextId, seed_cfg, history, chainvars>>

\* publish_item: deduct balance (sent on the pool)
PublishDeduct(p) ==
    /\ pc[p] = "pb_deduct"
    /\ \/ /\ UNCHANGED account_credits
          /\ Return(p, loc[p], "internal: storage")
       \/ /\ account_credits' = Deduct(account_credits, loc[p].account_id,
                                       loc[p].amount)
          /\ Return(p, loc[p], "ok")
    /\ UNCHANGED <<deposits, transactions, payment_addresses, now, nextId, seed_cfg,
                   history, chainvars>>

\* funding by card payments, and the two spending handlers
NextLedger ==
    \/ \E p \in Procs, a \in Accounts, h \in TxHashes, m \in Amounts : Stripe(p, a, h, m)
    \/ \E p \in Procs : StripeInsert(p)
    \/ \E p \in Procs : CreditStep(p)
    \/ \E p \in Procs, a \in Accounts, c \in Costs : Process(p, a, c)
    \/ \E p \in Procs : ProcessReserve(p)
    \/ \E p \in Procs, a \in Accounts, c \in Costs : PublishItem(p, a, c)
    \/ \E p \in Procs : PublishDeduct(p)

SpecLedger == InitDeposit /\ [][NextLedger]_vars

----------------------------------------------------------------------------
(* Reconciliation over time: one listener instance that sweeps again and
   again, the callers that report deposits by hand on either chain *)

\* the task of AssetHubListener::run
Listeners == {"p1"}

\* the HTTP handlers
Reporters == Procs \ Listeners

\* a step of p in which a storage operation of the sweep returned an error:
\* the SELECT of the pending rows, the SELECT of created_at, the UPDATE to
\* confirmed, a statement of credit_deposit
StorageFault(p) ==
    \/ /\ pc[p] = "idle"
       /\ result'[p] = "swept: select failed"
       /\ result[p] # "swept: select failed"
    \/ /\ pc[p] = "sw_next"
       /\ pc'[p] = "sw_next"
       /\ \E id \in loc[p].todo \ loc'[p].todo :
             ConfirmationPolicyMet(now, DepositById(deposits, id).created_at)
    \/ /\ pc[p] = "sw_confirm"
       /\ pc'[p] = "cd_begin"
       /\ deposits' = deposits
       /\ DepositById(deposits, loc[p].deposit_id).status # "confirmed"
    \/ /\ pc[p] \in CreditPcs
       /\ loc'[p].cd = pc[p]

NextReconcile ==
    \/ \E p \in Reporters, c \in ManualChains, a \in Accounts, h \in TxHashes,
          m \in Amounts : RecordDeposit(p, c, a, h, m)
    \/ \E p \in Reporters : RecordDepositInsert(p)
    \/ \E p \in Listeners : Sweep(p)
    \/ \E p \in Listeners : SweepNext(p)
    \/ \E p \in Listeners : SweepConfirm(p)
    \/ \E p \in Listeners : CreditStep(p)
    \/ Tick

\* run() polls every 6 seconds for ever and every await of a sweep returns, so
\* every step of the listener that stays possible is taken; the clock moves;
\* from some moment on no storage operation of the sweep fails
SpecReconcile ==
    /\ InitDeposit
    /\ [][NextReconcile]_vars
    /\ WF_vars(Tick)
    /\ \A p \in Listeners :
          /\ WF_vars(Sweep(p))
          /\ WF_vars(SweepNext(p))
          /\ WF_vars(SweepConfirm(p))
          /\ WF_vars(CreditStep(p))
          /\ <>[][~StorageFault(p)]_vars

----------------------------------------------------------------------------
(* The chain listeners: AssetHubListener::run / poll_blocks /
   process_extrinsic and the task of PenumbraListener::run *)

\* a comparison that takes the block of the last poll for a new one
NoNewBlockStrict(block_num, last) == block_num < last

\* if block_num <= *last_block { return Ok(()) }
NoNewBlock(block_num, last) == block_num <= last

\* poll_blocks, first request: chain_getFinalizedHead.  An error is returned
\* to run(), which logs it, sleeps and polls again
PollHead(p) ==
    /\ pc[p] = "idle"
    /\ ext_left[p] = 0
    /\ LET l == [NoLoc EXCEPT !.op = "poll_blocks"]
       IN \/ /\ Return(p, l, "poll error")
             /\ UNCHANGED blk
          \/ /\ Goto(p, l, "poll_block")
             /\ blk' = [blk EXCEPT ![p] = head]
    /\ UNCHANGED <<deposits, account_credits, transactions, payment_addresses,
                   now, nextId, seed_cfg, history, head, last_block, ext_left,
                   scanned, pen, shieldvars, walletvars,
                   workvars>>

\* &block.block.header.number[2..]: the slice of a number string of fewer than
\* two bytes is out of range, a panic that no caller catches
SliceFrom2Panics(len) == len < 2

\* poll_blocks, second request: chain_getBlock of that head, the parse of the
\* block number (a string of len bytes in the response), the test against
\* last_block, and the start of the loop over the extrinsics of the block.
\* A failed request, a response that is not the expected JSON, one without a
\* block and a number that is not hexadecimal are errors returned to run();
\* the panic ends the task of the listener
PollBlock(p) ==
    /\ pc[p] = "poll_block"
    /\ \/ /\ Return(p, loc[p], "poll error")
          /\ UNCHANGED <<last_block, ext_left, scanned>>
       \/ \E len \in 0..MaxNumberLen :
             IF SliceFrom2Panics(len)
             THEN /\ Goto(p, loc[p], "panicked")
                  /\ UNCHANGED <<last_block, ext_left, scanned>>
             ELSE IF NoNewBlock(blk[p], last_block[p])
             THEN /\ Return(p, loc[p], "ok: no new block")
                  /\ UNCHANGED <<last_block, ext_left, scanned>>
             ELSE /\ Return(p, loc[p], "processing block")
                  /\ last_block' = [last_block EXCEPT ![p] = blk[p]]
                  /\ scanned' = scanned \cup {blk[p]}
                  /\ \E n \in 0..MaxExtrinsics :
                        ext_left' = [ext_left EXCEPT ![p] = n]
    /\ UNCHANGED <<deposits, account_credits, transactions, payment_addresses,
                   now, nextId, seed_cfg, history, head, blk, pen, shieldvars, walletvars,
                   workvars>>

\* process_extrinsic of the next extrinsic of the block: one that does not
\* decode is skipped, any other runs check_pending_deposits
ProcessExtrinsic(p) ==
    /\ pc[p] = "idle"
    /\ ext_left[p] > 0
    /\ ext_left' = [ext_left EXCEPT ![p] = @ - 1]
    /\ \/ UNCHANGED <<deposits, account_credits, transactions, payment_addresses,
                       now, nextId, seed_cfg, history, pc, loc, result>>
       \/ check_pending_deposits(p)
    /\ UNCHANGED <<head, last_block, blk, scanned, pen, shieldvars, walletvars,
                   workvars>>

\* the chain finalizes its next block
NewBlock ==
    /\ head < MaxHeight
    /\ head' = head + 1
    /\ UNCHANGED <<deposits, account_credits, transactions, payment_addresses,
                   now, nextId, seed_cfg, pc, loc, result, history, last_block,
                   blk, ext_left, scanned, pen, shieldvars, walletvars,
                   workvars>>

\* a test that takes a missing URL for a configured one
RpcTakenAsConfigured(cfg) == TRUE

\* match &self.state.config.penumbra_rpc { Some(url) => .., None => return Ok(()) }
RpcConfigured(cfg) == cfg # "none"

\* the first lines of PenumbraListener::run: without an RPC URL it logs
\* "skipping listener" and returns Ok(()); with one it builds the listener
PenStart ==
    /\ pen = "start"
    /\ pen' = IF RpcConfigured(penumbra_rpc) THEN "load" ELSE "skipped"
    /\ UNCHANGED <<deposits, account_credits, transactions, payment_addresses,
                   now, nextId, seed_cfg, pc, loc, result, history, head,
                   last_block, blk, ext_left, scanned, shieldvars, walletvars,
                   workvars>>

\* SELECT penumbra_index, account_id::text, derivation_index
\* FROM payment_addresses
\* WHERE chain = 'penumbra' AND is_active = true AND penumbra_index IS NOT NULL
ActivePenumbra(tbl) ==
    {[penumbra_index |-> r.penumbra_index, account_id |-> r.account_id,
      derivation_index |-> r.derivation_index] :
        r \in {q \in BagToSet(tbl["penumbra"]) : q.is_active}}

\* the SELECT of the active penumbra addresses into `addresses`; its error
\* is returned by run() and the task ends
PenLoad ==
    /\ pen = "load"
    /\ \/ /\ pen' = "failed: storage"
          /\ UNCHANGED pen_loaded
       \/ /\ pen' = "watch"
          /\ pen_loaded' = ActivePenumbra(payment_addresses)
    /\ UNCHANGED <<deposits, account_credits, transactions, payment_addresses,
                   now, nextId, seed_cfg, pc, loc, result, history, head,
                   last_block, blk, ext_left, scanned, penumbra_rpc, watched,
                   walletvars,
                   workvars>>

\* for (penumbra_index, account_id, derivation_index) in addresses
\*     { listener.watch(..).await }: one turn of the loop
PenWatch ==
    /\ pen = "watch"
    /\ \E t \in pen_loaded \ watched : watched' = watched \cup {t}
    /\ UNCHANGED <<deposits, account_credits, transactions, payment_addresses,
                   now, nextId, seed_cfg, pc, loc, result, history, head,
                   last_block, blk, ext_left, scanned, pen, penumbra_rpc,
                   pen_loaded, walletvars,
                   workvars>>

\* a loop that is left before every address was registered
WatchLoopLeftEarly(loaded, registered) == TRUE

\* the for loop ends when `addresses` is used up
WatchLoopDone(loaded, registered) == loaded \subseteq registered

\* listener.run() is entered after the loop
PenRun ==
    /\ pen = "watch"
    /\ WatchLoopDone(pen_loaded, watched)
    /\ pen' = "running"
    /\ UNCHANGED <<deposits, account_credits, transactions, payment_addresses,
                   now, nextId, seed_cfg, pc, loc, result, history, head,
                   last_block, blk, ext_left, scanned, shieldvars, walletvars,
                   workvars>>

\* a call of the deposit callback is in progress
InCallback(p) == pc[p] # "idle" /\ loc[p].op = "on_deposit"

\* listener.run().await.map_err(..)?: when the view service connection gives
\* an error the call returns it, run() returns it and the task ends.  The
\* callback is awaited inside listener.run(), so none is in progress then
PenRunError ==
    /\ pen = "running"
    /\ \A p \in Procs : ~InCallback(p)
    /\ pen' = "failed: rpc"
    /\ UNCHANGED <<deposits, account_credits, transactions, payment_addresses,
                   now, nextId, seed_cfg, pc, loc, result, history, head,
                   last_block, blk, ext_left, scanned, shieldvars, walletvars,
                   workvars>>

\* the process is stopped and started again: both listener tasks start from
\* their first line with a new listener object, open database transactions
\* are rolled back
Restart ==
    /\ pc' = [p \in Procs |-> "idle"]
    /\ loc' = [p \in Procs |-> NoLoc]
    /\ result' = [p \in Procs |-> "restarted"]
    /\ last_block' = [p \in Procs |-> 0]
    /\ blk' = [p \in Procs |-> 0]
    /\ ext_left' = [p \in Procs |-> 0]
    /\ pen' = "start"
    /\ pen_loaded' = {}
    /\ watched' = {}
    /\ UNCHANGED <<deposits, account_credits, transactions, payment_addresses,
                   now, nextId, seed_cfg, history, head, scanned, penumbra_rpc,
                   walletvars,
                   workvars>>

\* a deposit reported by hand long enough ago waits for the sweep
InitListener ==
    /\ deposits = {DepositRow(1, "a1", "polkadot_assethub", "h1", 10, "pending", 0)}
    /\ account_credits = [a \in Accounts |-> [exists |-> a = "a1", balance |-> 0]]
    /\ transactions = <<>>
    /\ payment_addresses = [c \in AddrChains |->
            IF c = "penumbra" THEN SetToBag({AddressRow("a2", c, 0, TRUE)})
            ELSE EmptyBag]
    /\ now = MaxNow
    /\ nextId = 1
    /\ seed_cfg = "valid"
    /\ InitProcs
    /\ InitChain
    /\ penumbra_rpc \in RpcConfigs

NextListener ==
    \/ \E p \in Listeners : PollHead(p)
    \/ \E p \in Listeners : PollBlock(p)
    \/ \E p \in Listeners : ProcessExtrinsic(p)
    \/ \E p \in Listeners : SweepNext(p)
    \/ \E p \in Listeners : SweepConfirm(p)
    \/ \E p \in Listeners : CreditStep(p)
    \/ NewBlock
    \/ PenStart
    \/ PenLoad
    \/ PenWatch
    \/ PenRun
    \/ PenRunError
    \/ Restart

SpecListener == InitListener /\ [][NextListener]_vars

----------------------------------------------------------------------------
(* The shielded chain: the listener task, the notes it hands to the
   callback, and the address calls of the HTTP handlers beside it *)

\* the callback runs inside listener.run()
NoteDetected(p, s, h, amt) ==
    /\ pen = "running"
    /\ OnDeposit(p, s, h, amt)

\* account a2 got its penumbra address before the process started, account
\* a1 asks for its addresses while it runs
InitShielded ==
    /\ deposits = {}
    /\ account_credits = [a \in Accounts |-> [exists |-> TRUE, balance |-> 0]]
    /\ transactions = <<>>
    /\ payment_addresses = [c \in AddrChains |->
            IF c = "penumbra" THEN SetToBag({AddressRow("a2", c, 0, TRUE)})
            ELSE EmptyBag]
    /\ now = 0
    /\ nextId = 0
    /\ seed_cfg = "valid"
    /\ InitProcs
    /\ InitChain
    /\ penumbra_rpc \in RpcConfigs

\* the transaction hashes of the notes the view service reports
NoteHashes == {"h1"}

NextShielded ==
    \/ PenStart
    \/ PenLoad
    \/ PenWatch
    \/ PenRun
    \/ PenRunError
    \/ \E p \in Listeners, s \in NoteIndexes, h \in NoteHashes, m \in Amounts :
         NoteDetected(p, s, h, m)
    \/ \E p \in Listeners : OnDepositCheck(p)
    \/ \E p \in Listeners : OnDepositInsert(p)
    \/ \E p \in Listeners : CreditStep(p)
    \/ \E p \in Reporters, a \in AddrAccounts : GetDepositAddress(p, "penumbra", a)
    \/ \E p \in Reporters, a \in AddrAccounts : RotateAddress(p, "penumbra", a)
    \/ \E p \in Reporters : RotateMaxIndex(p)
    \/ \E p \in Reporters : RotateDeactivate(p)
    \/ \E p \in Reporters : DeriveAndStore(p)

SpecShielded == InitShielded /\ [][NextShielded]_vars

----------------------------------------------------------------------------
(* WalletDeriver: derivation of addresses *)

\* the root seeds a deriver is built from
WalletSeeds == {"seed0", "seed1"}

\* derivations are made for the indexes 0 .. MaxIndex
MaxIndex == 2

\* at most MaxCalls derivations are followed
MaxCalls == 3

\* a derivation that leaves the index out of the path
DeriveWithoutIndex(seed, user_id, index) ==
    [address |-> "1" \o seed \o "/" \o user_id,
     sub_index |-> PenumbraIndex(user_id, 0)]

\* derive(seed, account_id, index) -> (address, sub_index): the derivation
\* path mixes the account and the index into the keys of the seed; the
\* address is the encoding of the derived key
Derive(seed, user_id, index) ==
    [address |-> "1" \o seed \o "/" \o user_id \o "/" \o Dec(index),
     sub_index |-> PenumbraIndex(user_id, index)]

\* WalletDeriver::derive_polkadot_address: self.inner.derive_address(user_id,
\* derivation_index) of the wallet built from the seed
derive_polkadot_address(seed, user_id, derivation_index) ==
    Derive(seed, user_id, derivation_index).address

\* a call of the deriver, as derive_and_store_address and the tests make it:
\* a deriver built from the seed, then one derivation
DeriveCall(seed, user_id, index) ==
    /\ Cardinality(derived) < MaxCalls
    /\ derived' = derived \cup
          {[seed |-> seed, user_id |-> user_id, index |-> index,
            address |-> derive_polkadot_address(seed, user_id, index),
            sub_index |-> Derive(seed, user_id, index).sub_index]}
    /\ UNCHANGED <<deposits, account_credits, transactions, payment_addresses,
                   now, nextId, seed_cfg, pc, loc, result, history, head,
                   last_block, blk, ext_left, scanned, pen, shieldvars, vault,
                   wallet_seed_env, seed_io, workvars>>

NextDerive ==
    \E seed \in WalletSeeds, a \in Accounts, i \in 0..MaxIndex : DeriveCall(seed, a, i)

SpecDerive == InitAddr /\ [][NextDerive]_vars

----------------------------------------------------------------------------
(* SeedManager: the wallet seed in the vault *)

\* lengths of the seeds handed to store_seed
SeedLens == {16, 32, 64}

SeedValues == {SeedBytes(n, b) : n \in SeedLens, b \in {0, 42}}

Passwords == {"testpass", "other"}

\* WALLET_SEED: not set, a hexadecimal string, a string that is not one
EnvValues == {"unset", "hex", "not hex"}

\* hex::decode(seed_hex.trim_start_matches("0x")) of the hexadecimal value
EnvSeed == SeedBytes(32, 7)

\* if seed.len() != 32 && seed.len() != 64 { return Err(InvalidSeed) }
ValidSeedLen(len) == len = 32 \/ len = 64

\* vault.store(SecretId::WalletSeed, seed)
StoreSecretId == "WalletSeed"

\* a load that asks the vault for another secret
LoadOtherSecret == "ApiKey"

\* vault.load(SecretId::WalletSeed)
LoadSecretId == "WalletSeed"

\* Vault::store: the secret is sealed under the password the vault was
\* opened with and replaces what was stored under the id
VaultStore(v, id, seed, password) ==
    [v EXCEPT ![id] = [present |-> TRUE, seed |-> seed, password |-> password]]

\* Vault::load: the bytes stored under the id, when there are any and the
\* vault was opened with the password that sealed them
VaultLoad(v, id, password) ==
    IF v[id].present /\ v[id].password = password
    THEN [ok |-> TRUE, seed |-> v[id].seed]
    ELSE [ok |-> FALSE, seed |-> SeedBytes(0, 0)]

\* SeedManager::store_seed
store_seed(seed, password) ==
    /\ LET io == [op |-> "store_seed", password |-> password, result |-> "ok",
                  out |-> SeedBytes(0, 0), stored |-> seed_io.stored]
       IN IF ~ValidSeedLen(seed.len)
          THEN /\ seed_io' = [io EXCEPT !.result = "invalid seed"]
               /\ UNCHANGED vault
          ELSE /\ vault' = VaultStore(vault, StoreSecretId, seed, password)
               /\ seed_io' = [io EXCEPT !.stored = [present |-> TRUE, seed |-> seed,
                                                     password |-> password]]
    /\ UNCHANGED <<deposits, account_credits, transactions, payment_addresses,
                   now, nextId, seed_cfg, pc, loc, result, history, head,
                   last_block, blk, ext_left, scanned, pen, shieldvars, derived,
                   wallet_seed_env, workvars>>

\* SeedManager::load_seed: the environment variable first, then the vault
load_seed(password) ==
    /\ LET io == [op |-> "load_seed", password |-> password, result |-> "ok",
                  out |-> SeedBytes(0, 0), stored |-> seed_io.stored]
           r == VaultLoad(vault, LoadSecretId, password)
       IN seed_io' =
            IF wallet_seed_env # "unset"
            THEN IF wallet_seed_env = "hex" THEN [io EXCEPT !.out = EnvSeed]
                 ELSE [io EXCEPT !.result = "invalid seed"]
            ELSE IF r.ok THEN [io EXCEPT !.out = r.seed]
                 ELSE [io EXCEPT !.result = "vault error"]
    /\ UNCHANGED <<deposits, account_credits, transactions, payment_addresses,
                   now, nextId, seed_cfg, pc, loc, result, history, head,
                   last_block, blk, ext_left, scanned, pen, shieldvars, derived,
                   vault, wallet_seed_env, workvars>>

InitSeed ==
    /\ deposits = {}
    /\ account_credits = [a \in Accounts |-> [exists |-> a = "a1", balance |-> 0]]
    /\ transactions = <<>>
    /\ payment_addresses = [c \in AddrChains |-> EmptyBag]
    /\ now = 0
    /\ nextId = 0
    /\ seed_cfg = "none"
    /\ InitProcs
    /\ InitListenerTasks
    /\ penumbra_rpc = "configured"
    /\ InitWalletIdle
    /\ wallet_seed_env \in EnvValues
    /\ InitWork

NextSeed ==
    \/ \E seed \in SeedValues, password \in Passwords : store_seed(seed, password)
    \/ \E password \in Passwords : load_seed(password)

SpecSeed == InitSeed /\ [][NextSeed]_vars

----------------------------------------------------------------------------
(* The free tier of the tts route *)

\* at most MaxJobs jobs are submitted
MaxJobs == 2

\* the days CURRENT_DATE goes through: 0 .. MaxDay
MaxDay == 1

\* const FREE_TIER_DAILY_LIMIT: i32 = 1000
FREE_TIER_DAILY_LIMIT == 1000

\* char_count of the requests
CharCounts == {400, 600}

\* INSERT INTO jobs (.. status ..) VALUES (.. 'queued' ..): the row of a new
\* job; ids are given in the order of created_at
JobRow(id, has_text) ==
    [id |-> id, status |-> "queued", has_text |-> has_text, aged |-> FALSE]

JobsLeft ==
    Cardinality(jobs) + Cardinality({q \in Procs : pc[q] = "ft_consume"}) < MaxJobs

\* INSERT INTO free_tier_usage (ip_hash, chars_used, last_reset)
\* VALUES ($1, 0, CURRENT_DATE) ON CONFLICT (ip_hash) DO UPDATE SET chars_used =
\* CASE WHEN last_reset < CURRENT_DATE THEN 0 ELSE chars_used END,
\* last_reset = CURRENT_DATE
UpsertUsage(tbl, ip, day) ==
    [tbl EXCEPT ![ip] =
        [exists |-> TRUE,
         chars_used |-> IF ~@.exists \/ @.last_reset < day THEN 0 ELSE @.chars_used,
         last_reset |-> day]]

\* tts of a free-tier user up to the end of check_free_tier_limit
check_free_tier_limit(p, ip_hash, chars_needed) ==
    /\ pc[p] = "idle"
    /\ JobsLeft
    /\ LET l == [NoLoc EXCEPT !.op = "tts", !.ip_hash = ip_hash,
                              !.amount = chars_needed]
           t == UpsertUsage(free_tier_usage, ip_hash, today)
           remaining == FREE_TIER_DAILY_LIMIT - t[ip_hash].chars_used
       IN \/ /\ UNCHANGED free_tier_usage
             /\ Return(p, l, "internal error")
          \/ /\ free_tier_usage' = t
             /\ IF remaining < chars_needed
                THEN Return(p, l, "free tier limit exceeded")
                ELSE Goto(p, l, "ft_consume")
    /\ UNCHANGED <<deposits, account_credits, transactions, payment_addresses,
                   now, nextId, seed_cfg, history, head, last_block, blk,
                   ext_left, scanned, pen, shieldvars, walletvars, today, jobs,
                   held>>

\* tts of a free-tier user after the check: begin, UPDATE free_tier_usage SET
\* chars_used = chars_used + $1, INSERT INTO jobs, commit
TtsConsume(p) ==
    /\ pc[p] = "ft_consume"
    /\ \/ /\ UNCHANGED <<free_tier_usage, jobs>>
          /\ Return(p, loc[p], "internal error")
       \/ /\ free_tier_usage' =
                [free_tier_usage EXCEPT ![loc[p].ip_hash].chars_used =
                    IF free_tier_usage[loc[p].ip_hash].exists
                    THEN @ + loc[p].amount ELSE @]
          /\ jobs' = jobs \cup {JobRow(Cardinality(jobs) + 1, TRUE)}
          /\ Return(p, loc[p], "ok")
    /\ UNCHANGED <<deposits, account_credits, transactions, payment_addresses,
                   now, nextId, seed_cfg, history, head, last_block, blk,
                   ext_left, scanned, pen, shieldvars, walletvars, today, held>>

\* midnight
NewDay ==
    /\ today < MaxDay
    /\ today' = today + 1
    /\ UNCHANGED <<deposits, account_credits, transactions, payment_addresses,
                   now, nextId, seed_cfg, pc, loc, result, history, head,
                   last_block, blk, ext_left, scanned, pen, shieldvars,
                   walletvars, free_tier_usage, jobs, held>>

NextFreeTier ==
    \/ \E p \in Procs, ip \in IpHashes, n \in CharCounts :
         check_free_tier_limit(p, ip, n)
    \/ \E p \in Procs : TtsConsume(p)
    \/ NewDay

\* the service at start, before any request
InitFreeTier ==
    /\ deposits = {}
    /\ account_credits = [a \in Accounts |-> [exists |-> a = "a1", balance |-> 0]]
    /\ transactions = <<>>
    /\ payment_addresses = [c \in AddrChains |-> EmptyBag]
    /\ now = 0
    /\ nextId = 0
    /\ seed_cfg = "valid"
    /\ InitCallers

SpecFreeTier == InitFreeTier /\ [][NextFreeTier]_vars

\* ---------------------------------------------------------------------------
\* worker.rs: run_worker, recover_zombie_jobs, process_next_job, mark_job_failed
\* Each process of Procs is one run_worker task (one per running instance of
\* the service); held[p] is the job of the iteration p is in, 0 for none.

JobById(id) == CHOOSE j \in jobs : j.id = id

SetStatus(id, st) ==
    {IF j.id = id THEN [j EXCEPT !.status = st] ELSE j : j \in jobs}

\* SELECT id FROM jobs WHERE status = 'queued' ORDER BY created_at LIMIT 1
\* FOR UPDATE SKIP LOCKED. The claiming UPDATE is one statement: a row locked
\* by another claimer is 'processing' once that claimer's statement is over.
QueuedIds == {j.id : j \in {k \in jobs : k.status = "queued"}}

OldestQueued == CHOOSE i \in QueuedIds : \A k \in QueuedIds : i <= k

\* INSERT INTO jobs (id, content_id, api_key) (sites.rs) has_text = FALSE;
\* INSERT INTO jobs (id, text_content, ..) (embed.rs, api.rs) has_text = TRUE
SubmitJob(has_text) ==
    /\ JobsLeft
    /\ jobs' = jobs \cup {JobRow(Cardinality(jobs) + 1, has_text)}
    /\ UNCHANGED <<deposits, account_credits, transactions, payment_addresses,
                   now, nextId, seed_cfg, pc, loc, result, history, head,
                   last_block, blk, ext_left, scanned, pen, shieldvars,
                   walletvars, free_tier_usage, today, held>>

\* time passes: created_at of the job is now more than 5 minutes ago
JobAges(id) ==
    /\ \E j \in jobs : j.id = id /\ ~j.aged
    /\ jobs' = {IF j.id = id THEN [j EXCEPT !.aged = TRUE] ELSE j : j \in jobs}
    /\ UNCHANGED <<deposits, account_credits, transactions, payment_addresses,
                   now, nextId, seed_cfg, pc, loc, result, history, head,
                   last_block, blk, ext_left, scanned, pen, shieldvars,
                   walletvars, free_tier_usage, today, held>>

\* UPDATE jobs SET status = 'queued' WHERE status = 'processing'
\* AND created_at < NOW() - INTERVAL '5 minutes'
Recovered ==
    {IF j.status = "processing" /\ j.aged THEN [j EXCEPT !.status = "queued"]
     ELSE j : j \in jobs}

\* run_worker up to its loop: recover_zombie_jobs once, its error only logged
recover_zombie_jobs(p) ==
    /\ pc[p] = "w_start"
    /\ \/ jobs' = Recovered
       \/ UNCHANGED jobs
    /\ pc' = [pc EXCEPT ![p] = "w_loop"]
    /\ UNCHANGED <<deposits, account_credits, transactions, payment_addresses,
                   now, nextId, seed_cfg, loc, result, history, head,
                   last_block, blk, ext_left, scanned, pen, shieldvars,
                   walletvars, free_tier_usage, today, held>>

\* process_next_job, the claiming UPDATE .. RETURNING. With no queued job, or
\* on an error of the statement, the iteration ends and nothing changes.
ClaimJob(p) ==
    /\ pc[p] = "w_loop"
    /\ QueuedIds # {}
    /\ LET id == OldestQueued
       IN /\ jobs' = SetStatus(id, "processing")
          /\ held' = [held EXCEPT ![p] = id]
          /\ pc' = [pc EXCEPT ![p] =
                       IF JobById(id).has_text THEN "w_tts" ELSE "w_content"]
    /\ UNCHANGED <<deposits, account_credits, transactions, payment_addresses,
                   now, nextId, seed_cfg, loc, result, history, head,
                   last_block, blk, ext_left, scanned, pen, shieldvars,
                   walletvars, free_tier_usage, today>>

\* the end of an iteration of the loop of run_worker
EndIteration(p) ==
    /\ pc' = [pc EXCEPT ![p] = "w_loop"]
    /\ held' = [held EXCEPT ![p] = 0]

\* SELECT text_content FROM content WHERE id = $1, fetch_one()?: an error ends
\* process_next_job with Err
FetchContent(p) ==
    /\ pc[p] = "w_content"
    /\ \/ pc' = [pc EXCEPT ![p] = "w_tts"] /\ UNCHANGED held
       \/ EndIteration(p)
    /\ UNCHANGED jobs
    /\ UNCHANGED <<deposits, account_credits, transactions, payment_addresses,
                   now, nextId, seed_cfg, loc, result, history, head,
                   last_block, blk, ext_left, scanned, pen, shieldvars,
                   walletvars, free_tier_usage, today>>

\* TTS generation
Generate(p) ==
    /\ pc[p] = "w_tts"
    /\ \/ pc' = [pc EXCEPT ![p] = "w_upload"]
       \/ pc' = [pc EXCEPT ![p] = "w_fail"]
    /\ UNCHANGED <<deposits, account_credits, transactions, payment_addresses,
                   now, nextId, seed_cfg, loc, result, history, head,
                   last_block, blk, ext_left, scanned, pen, shieldvars,
                   walletvars, free_tier_usage, today, jobs, held>>

\* storage.upload
Upload(p) ==
    /\ pc[p] = "w_upload"
    /\ \/ pc' = [pc EXCEPT ![p] = "w_complete"]
       \/ pc' = [pc EXCEPT ![p] = "w_fail"]
    /\ UNCHANGED <<deposits, account_credits, transactions, payment_addresses,
                   now, nextId, seed_cfg, loc, result, history, head,
                   last_block, blk, ext_left, scanned, pen, shieldvars,
                   walletvars, free_tier_usage, today, jobs, held>>

\* UPDATE jobs SET status = 'completed', .. WHERE id = $10, execute()?
Complete(p) ==
    /\ pc[p] = "w_complete"
    /\ \/ jobs' = SetStatus(held[p], "completed")
       \/ UNCHANGED jobs
    /\ EndIteration(p)
    /\ UNCHANGED <<deposits, account_credits, transactions, payment_addresses,
                   now, nextId, seed_cfg, loc, result, history, head,
                   last_block, blk, ext_left, scanned, pen, shieldvars,
                   walletvars, free_tier_usage, today>>

\* UPDATE jobs SET status = 'failed', .. WHERE id = $2, execute()?
mark_job_failed(p) ==
    /\ pc[p] = "w_fail"
    /\ \/ jobs' = SetStatus(held[p], "failed")
       \/ UNCHANGED jobs
    /\ EndIteration(p)
    /\ UNCHANGED <<deposits, account_credits, transactions, payment_addresses,
                   now, nextId, seed_cfg, loc, result, history, head,
                   last_block, blk, ext_left, scanned, pen, shieldvars,
                   walletvars, free_tier_usage, today>>

NextWorker ==
    \/ \E t \in BOOLEAN : SubmitJob(t)
    \/ \E id \in 1..MaxJobs : JobAges(id)
    \/ \E p \in Procs : recover_zombie_jobs(p)
    \/ \E p \in Procs : ClaimJob(p)
    \/ \E p \in Procs : FetchContent(p)
    \/ \E p \in Procs : Generate(p)
    \/ \E p \in Procs : Upload(p)
    \/ \E p \in Procs : Complete(p)
    \/ \E p \in Procs : mark_job_failed(p)

\* tokio::spawn(run_worker(state)) in every instance of the service
InitWorker ==
    /\ deposits = {}
    /\ account_credits = [a \in Accounts |-> [exists |-> a = "a1", balance |-> 0]]
    /\ transactions = <<>>
    /\ payment_addresses = [c \in AddrChains |-> EmptyBag]
    /\ now = 0
    /\ nextId = 0
    /\ seed_cfg = "valid"
    /\ pc = [p \in Procs |-> "w_start"]
    /\ loc = [p \in Procs |-> NoLoc]
    /\ result = [p \in Procs |-> "none"]
    /\ history = [c \in AddrChains |-> [first |-> "none", rotations |-> 0]]
    /\ InitChain
    /\ penumbra_rpc = "configured"

SpecWorker == InitWorker /\ [][NextWorker]_vars


----------------------------------------------------------------------------
(* Properties *)

RECURSIVE SumCredited(_, _)
\* the amounts of the credited deposits of an account
SumCredited(deps, a) ==
    IF deps = {} THEN 0
    ELSE LET d == CHOOSE x \in deps : TRUE
         IN (IF d.account_id = a /\ d.status = "credited" THEN d.amount ELSE 0)
            + SumCredited(deps \ {d}, a)

AllChains == {"polkadot_assethub", "penumbra", "stripe"}

RowsForTxHash(h) == LedgerRows(transactions, h, AllChains)

RECURSIVE SumOnce(_, _)
\* the amounts of the deposits of an account that have a ledger row, each once
SumOnce(deps, a) ==
    IF deps = {} THEN 0
    ELSE LET d == CHOOSE x \in deps : TRUE
         IN (IF d.account_id = a /\ RowsForTxHash(d.tx_hash) # {} THEN d.amount ELSE 0)
            + SumOnce(deps \ {d}, a)

CreditErrors == {"err: credit_deposit " \o s : s \in CreditPcs}

\* C1: crediting the same deposit (tx_hash) twice, one call after the other
\* or interleaved, leaves exactly one ledger row for the tx_hash and one
\* increment of the balance: no tx_hash has two ledger rows and no balance
\* exceeds the amounts of the account's credited deposits.
C1_NoDoubleCredit ==
    /\ \A h \in TxHashes : Cardinality(RowsForTxHash(h)) <= 1
    /\ \A a \in Accounts :
         BalanceOf(account_credits, a) <= SumOnce(deposits, a)

\* C2: a second invocation of on_deposit or of the Stripe checkout handler for
\* a tx_hash, also one that passed the existence check before the first
\* invocation inserted, is rejected before credit_deposit: the ledger has at
\* most one penumbra/stripe row per tx_hash and every balance is at most the
\* sum of the account's credited deposits.
C2_EntryPointCreditsOnce ==
    /\ \A h \in TxHashes :
         Cardinality(LedgerRows(transactions, h, {"penumbra", "stripe"})) <= 1
    /\ \A a \in Accounts :
         BalanceOf(account_credits, a) <= SumCredited(deposits, a)

\* a racing second invocation was rejected at its INSERT while the first one
\* has been credited
C2_Witness ==
    \E p \in Procs :
        /\ pc[p] = "idle"
        /\ loc[p].op \in {"on_deposit", "stripe"}
        /\ result[p] \in {"err: duplicate key", "internal: duplicate key"}
        /\ RowsForTxHash(loc[p].tx_hash) # {}

C4_DuplicateReportRejected ==
    [][\A p \in Procs :
         (/\ pc[p] = "idle"
          /\ loc'[p].op = "record_deposit"
          /\ result'[p] # result[p] \/ pc'[p] # "idle"
          /\ ExistsByTxHash(deposits, loc'[p].tx_hash))
         => (/\ result'[p] = "deposit already recorded"
             /\ pc'[p] = "idle"
             /\ UNCHANGED <<deposits, account_credits, transactions>>)]_vars

\* the step of caller p is the successful tx.commit() of credit_deposit
CommitSucceeded(p) ==
    /\ pc[p] = "cd_commit"
    /\ IF loc[p].op = "sweep" THEN loc'[p].cd = "ok" ELSE result'[p] = "ok"

\* after a failed credit_deposit of on_deposit or the Stripe handler the
\* deposit is still confirmed and has no ledger row
FailedCreditLeftNothing ==
    \A p \in Procs :
        (pc[p] = "idle" /\ result[p] \in CreditErrors)
        => /\ \A d \in deposits : d.tx_hash = loc[p].tx_hash => d.status = "confirmed"
           /\ RowsForTxHash(loc[p].tx_hash) = {}

\* C5: credit_deposit is all-or-nothing: every step of it other than the
\* successful commit leaves deposits, account_credits and transactions
\* unchanged, and after a failed call the deposit keeps its pre-credited
\* status and has no ledger row.
C5_CreditAllOrNothing ==
    /\ [][\A p \in Procs :
            (pc[p] \in CreditPcs /\ pc'[p] # pc[p] /\ ~CommitSucceeded(p))
            => UNCHANGED <<deposits, account_credits, transactions>>]_vars
    /\ []FailedCreditLeftNothing

\* a credit_deposit failed at its commit: the deposit is confirmed, not
\* credited, and no ledger row and no balance came of it
C5_Witness ==
    \E p \in Procs :
        /\ pc[p] = "idle"
        /\ result[p] = "err: credit_deposit cd_commit"
        /\ \E d \in deposits : d.tx_hash = loc[p].tx_hash /\ d.status = "confirmed"
        /\ RowsForTxHash(loc[p].tx_hash) = {}
        /\ \A a \in Accounts : BalanceOf(account_credits, a) = 0

\* C6: the balance of every account that has an account_credits row equals
\* the sum of the amounts of its ledger rows.
C6_BalanceIsLedgerSum ==
    \A a \in Accounts :
        account_credits[a].exists =>
            account_credits[a].balance = SumAmounts(transactions, a)

StatusRank(st) == CASE st = "pending" -> 0 [] st = "confirmed" -> 1 [] OTHER -> 2

\* C7: the status of a deposit only moves forward along pending, confirmed,
\* credited, and no deposits row is deleted.
C7_StatusForwardOnly ==
    [][\A d \in deposits :
         \E e \in deposits' :
             e.id = d.id /\ StatusRank(e.status) >= StatusRank(d.status)]_vars

\* C8: a deposit becomes credited only from the status confirmed.
C8_CreditedOnlyFromConfirmed ==
    [][\A d \in deposits, e \in deposits' :
         (e.id = d.id /\ e.status = "credited" /\ d.status # "credited")
         => d.status = "confirmed"]_vars

\* C9: at most one payment_addresses row of an account and chain is active.
C9_AtMostOneActive ==
    \A c \in AddrChains, a \in AddrAccounts :
        CopiesOfAll(payment_addresses[c], ActiveRows(payment_addresses, a, c)) <= 1

RotationInProgress(a, c) ==
    \E p \in Procs :
        /\ pc[p] \in {"ro_max", "ro_deactivate", "ds_insert"}
        /\ loc[p].op = "rotate_address"
        /\ loc[p].account_id = a
        /\ loc[p].chain = c

\* C10: a rotate_address that failed leaves the account its active address:
\* an account that has addresses and no rotation in progress has an active one.
C10_FailedRotationKeepsActive ==
    \A c \in AddrChains, a \in AddrAccounts :
        (RowsOf(payment_addresses, a, c) # {} /\ ~RotationInProgress(a, c))
        => ActiveRows(payment_addresses, a, c) # {}

\* no get_deposit_address or rotate_address call of the chain is in progress
Quiescent(c) == \A p \in Procs : pc[p] = "idle" \/ loc[p].chain # c

\* C11: for an account whose first address came from get_deposit_address,
\* after k successful rotate_address calls list_addresses returns k+1 rows,
\* their derivation_index values pairwise distinct (strictly monotonic in the
\* returned order), exactly one of them with is_active = true.
C11_RotationMonotonicity ==
    \A a \in AddrAccounts :
        LET c == "polkadot_assethub"
            rows == list_addresses(payment_addresses, a)
        IN (Quiescent(c) /\ history[c].first = "get")
           => /\ Len(rows) = history[c].rotations + 1
              /\ \A i, j \in 1..Len(rows) :
                    i < j => rows[i].derivation_index > rows[j].derivation_index
              /\ Cardinality({i \in 1..Len(rows) : rows[i].is_active}) = 1

\* the step in which caller p enters rotate_address
RotateCalled(p) ==
    /\ pc[p] = "idle"
    /\ loc'[p].op = "rotate_address"
    /\ <<pc[p], loc[p], result[p]>>' # <<pc[p], loc[p], result[p]>>

\* C12: a rotate_address call for an account that has N addresses on the
\* chain (N = max_addresses_per_user) fails and changes nothing: the call
\* returns at once, no payment_addresses row is changed or added, and the
\* error is "address limit reached (N/N)" whenever the count query answers
\* (a count query that fails surfaces as the generic internal error).
C12_CapEnforced ==
    [][\A p \in Procs :
          (/\ RotateCalled(p)
           /\ count_addresses(payment_addresses, loc'[p].account_id, loc'[p].chain)
              = max_addresses_per_user)
          => /\ payment_addresses' = payment_addresses
             /\ pc'[p] = "idle"
             /\ result'[p] \in {LimitError(max_addresses_per_user,
                                           max_addresses_per_user),
                                "internal: storage"}]_vars

\* a rotation was refused with the limit error while the account has N rows,
\* one of them active
C12_Witness ==
    \E p \in Procs :
        /\ pc[p] = "idle"
        /\ loc[p].op = "rotate_address"
        /\ result[p] = "address limit reached (5/5)"
        /\ count_addresses(payment_addresses, "a1", loc[p].chain)
           = max_addresses_per_user
        /\ ActiveRows(payment_addresses, "a1", loc[p].chain) # {}

\* C13: no two payment_addresses rows of an account on a chain have the same
\* derivation_index, whatever calls of get_deposit_address and rotate_address
\* ran, one after the other or interleaved, failed rotations included.
C13_IndexNeverReused ==
    \A c \in AddrChains, a \in AddrAccounts :
        count_addresses(payment_addresses, a, c)
        = Cardinality({r.derivation_index : r \in RowsOf(payment_addresses, a, c)})

\* the step in which caller p enters get_deposit_address
GetCalled(p) ==
    /\ pc[p] = "idle"
    /\ loc'[p].op = "get_deposit_address"
    /\ <<pc[p], loc[p], result[p]>>' # <<pc[p], loc[p], result[p]>>

\* the step in which a get_deposit_address call of p stores its row
GetStored(p) ==
    /\ pc[p] = "ds_insert"
    /\ loc[p].op = "get_deposit_address"
    /\ payment_addresses' # payment_addresses

\* C14: get_deposit_address returns the active address and stores nothing
\* when the account has one, and it stores a row (index 0) only when the
\* account has no address on the chain, so calls that follow each other
\* without a rotation return the same address.
C14_GetIsIdempotent ==
    [][\A p \in Procs :
          /\ (/\ GetCalled(p)
              /\ ActiveRows(payment_addresses, loc'[p].account_id, loc'[p].chain) # {}
              /\ result'[p] # "internal: storage")
             => /\ payment_addresses' = payment_addresses
                /\ result'[p] = "ok: existing"
                /\ \E r \in ActiveRows(payment_addresses, loc'[p].account_id,
                                        loc'[p].chain) :
                      loc'[p].idx = r.derivation_index
          /\ GetStored(p)
             => /\ RowsOf(payment_addresses, loc[p].account_id, loc[p].chain) = {}
                /\ loc[p].idx = 0]_vars

DepositIds == 1..(MaxDeposits + 1)

HasStatus(id, st) == \E d \in deposits : d.id = id /\ d.status = st

\* credit_deposit committed for the deposit: its ledger row exists
Ledgered(id) == \E i \in DOMAIN transactions : transactions[i].deposit_id = id

\* C15: every deposit that becomes confirmed is credited later on, once
\* storage operations succeed again: no failed credit_deposit leaves it in
\* confirmed for ever without its balance increment and ledger row.
C15_ConfirmedEventuallyCredited ==
    \A id \in DepositIds : HasStatus(id, "confirmed") ~> Ledgered(id)

\* the deposit is pending and old enough for the confirmation policy
PendingAndDue(id) ==
    \E d \in deposits :
        /\ d.id = id
        /\ d.status = "pending"
        /\ ConfirmationPolicyMet(now, d.created_at)

\* C16: every deposit reported in pending, on the transparent chain or by
\* hand on penumbra, is swept once the confirmation policy is met and is
\* then confirmed and credited: its ledger row is written.
C16_PendingEventuallyCredited ==
    \A id \in DepositIds : PendingAndDue(id) ~> Ledgered(id)

\* C17: no chain listener stops because of an RPC or connection error: the
\* transparent listener is back at the top of its loop after a failed poll,
\* ready for the next one, and the task of the shielded listener never ends
\* with such an error.
C17_ListenersSurviveRpcErrors ==
    /\ \A p \in Listeners : result[p] = "poll error" => pc[p] = "idle"
    /\ pen # "failed: rpc"

\* the highest block a listener has iterated over so far
MaxScanned == CHOOSE m \in scanned : \A b \in scanned : b <= m

\* the step in which a poll of p takes the fetched block for a new one
PolledNewBlock(p) ==
    /\ pc[p] = "poll_block"
    /\ loc'[p].op = "poll_blocks"
    /\ last_block'[p] # last_block[p]

\* C18: the first poll after a restart resumes behind the last block handled
\* before the restart: every block finalized since then, up to the block the
\* poll fetched, is scanned.
C18_ResumesAfterRestart ==
    [][\A p \in Listeners :
          (PolledNewBlock(p) /\ last_block[p] = 0 /\ scanned # {})
          => \A b \in (MaxScanned + 1)..last_block'[p] : b \in scanned']_vars

\* C19: when the finalized height seen by two successful polls in a row
\* goes from h to a higher h2, every block h+1 .. h2 is fetched and scanned.
C19_EveryNewBlockScanned ==
    [][\A p \in Listeners :
          (PolledNewBlock(p) /\ last_block[p] > 0)
          => \A b \in (last_block[p] + 1)..last_block'[p] : b \in scanned']_vars

\* the step in which a poll of p got its block and found block_num <= last_block
PolledSameBlock(p) ==
    /\ pc[p] = "poll_block"
    /\ pc'[p] = "idle"
    /\ loc'[p].op = "poll_blocks"
    /\ result'[p] # "poll error"
    /\ blk[p] <= last_block[p]

\* C20: a poll that finds the finalized height unchanged (block_num <=
\* last_block) does nothing: last_block stays, no extrinsic is processed, no
\* block is scanned, no deposit, balance or ledger row changes.
C20_UnchangedHeightIsNoOp ==
    [][\A p \in Listeners :
          PolledSameBlock(p)
          => /\ last_block' = last_block
             /\ ext_left'[p] = 0
             /\ scanned' = scanned
             /\ result'[p] = "ok: no new block"
             /\ <<deposits, account_credits, transactions>>'
                = <<deposits, account_credits, transactions>>]_vars

\* a poll found the height of its last poll again and returned
C20_Witness ==
    \E p \in Listeners :
        /\ pc[p] = "idle"
        /\ result[p] = "ok: no new block"
        /\ last_block[p] = head
        /\ blk[p] = last_block[p]
        /\ head \in scanned

\* C21: a malformed item is skipped and the poll loop goes on: no poll ends
\* the task of a listener, whatever block or response it was given.
C21_MalformedItemSkipped == \A p \in Listeners : pc[p] # "panicked"

\* C22: on startup the shielded-chain listener registers every penumbra
\* tuple that was active in payment_addresses when it read the table before
\* the run loop of the underlying listener starts, and the callback handles
\* no note before that.
C22_WatchBeforeRun ==
    /\ [](pen = "running" => pen_loaded \subseteq watched)
    /\ [](\A p \in Procs : InCallback(p) => pen = "running")
    /\ [][(pen = "load" /\ pen' = "watch")
           => pen_loaded' = ActivePenumbra(payment_addresses)]_vars

\* the run loop was entered with an address registered
C22_Witness == pen = "running" /\ pen_loaded # {} /\ pen_loaded \subseteq watched

\* C23: after rotate_address succeeds while the listener is running, the
\* sub-index of the new address is in the watch list of the listener.
C23_RotatedAddressWatched ==
    \A p \in Procs :
        (pen = "running" /\ pc[p] = "idle" /\ loc[p].op = "rotate_address"
         /\ result[p] = "ok: derived")
        => \E t \in watched, a \in AddrAccounts :
              t.penumbra_index = PenumbraIndex(a, loc[p].idx)

\* account a has a penumbra row whose penumbra_index is s
OwnsSubIndex(a, s) ==
    \E r \in BagToSet(payment_addresses["penumbra"]) :
        r.account_id = a /\ r.penumbra_index = s

\* caller p takes a step of the callback it is in
CallbackStep(p) == InCallback(p) /\ pc'[p] # pc[p]

\* C24: a note that carries sub-index s is recorded for and credited to the
\* account whose penumbra row has penumbra_index = s, and to no other: the
\* deposit row, the balance change and the ledger row of the callback all
\* name an owner of s, and s has one owner.
C24_NoteCreditedToOwner ==
    /\ [][\A p \in Procs :
             CallbackStep(p)
             => /\ \A r \in deposits' \ deposits :
                      OwnsSubIndex(r.account_id, loc[p].idx)
                /\ \A a \in Accounts :
                      account_credits'[a] # account_credits[a]
                      => OwnsSubIndex(a, loc[p].idx)
                /\ Len(transactions') > Len(transactions)
                   => OwnsSubIndex(transactions'[Len(transactions')].account_id,
                                   loc[p].idx)]_vars
    /\ [](\A s \in NoteIndexes :
             Cardinality({a \in Accounts : OwnsSubIndex(a, s)}) <= 1)

\* a note for each account was credited to it, both sub-indexes being stored
C24_Witness ==
    /\ \A s \in NoteIndexes : \E a \in Accounts : OwnsSubIndex(a, s)
    /\ \E i \in 1..Len(transactions) :
          /\ transactions[i].chain = "penumbra"
          /\ account_credits[transactions[i].account_id].balance > 0

\* the step in which PenumbraListener::run leaves its first lines
PenStarted == pen = "start" /\ pen' # "start"

\* C25: when penumbra_rpc is not configured the penumbra listener does not
\* start: run returns Ok without loading, watching or polling, and the step
\* touches nothing of the transparent-chain listener, the callers or the
\* tables.
C25_UnconfiguredListenerSkipped ==
    /\ [](penumbra_rpc = "none"
          => /\ pen \in {"start", "skipped"}
             /\ watched = {}
             /\ pen_loaded = {})
    /\ [][(PenStarted /\ penumbra_rpc = "none")
           => /\ pen' = "skipped"
              /\ <<deposits, account_credits, transactions, payment_addresses,
                    pc, loc, result, head, last_block, blk, ext_left, scanned>>'
                 = <<deposits, account_credits, transactions, payment_addresses,
                     pc, loc, result, head, last_block, blk, ext_left, scanned>>]_vars

\* the penumbra listener was skipped and the transparent-chain listener has
\* scanned the newest block
C25_Witness ==
    /\ penumbra_rpc = "none"
    /\ pen = "skipped"
    /\ head = MaxHeight
    /\ head \in scanned

\* C26: a configured seed with invalid hex encoding or an invalid length is
\* fatal to the address operation: no call returns an address and no row is
\* stored on either chain.
C26_InvalidSeedIsFatal ==
    seed_cfg = "invalid"
    => /\ \A c \in AddrChains : payment_addresses[c] = EmptyBag
       /\ \A p \in Procs : result[p] \notin {"ok: derived", "ok: existing"}

LoadReturns == seed_io'.op = "load_seed" /\ seed_io' # seed_io

CopiesWithIndex(tbl, a, chain, i) ==
    CopiesOfAll(tbl[chain], {r \in RowsOf(tbl, a, chain) : r.derivation_index = i})

\* the entries of a sequence
Entries(seq) == {seq[k] : k \in 1..Len(seq)}

YoungPending(d) == d.status = "pending" /\ now - d.created_at <= ConfirmDelay

\* the sweep of p is confirming or crediting a deposit
Promoting(p) ==
    loc[p].op = "sweep" /\ pc[p] \in {"sw_confirm"} \cup CreditPcs

\* C31: the sweep promotes a pending deposit only when it was created more
\* than two minutes ago: a younger pending deposit keeps its row as it is, no
\* ledger row is written for it, and no sweep is confirming or crediting it.
C31_YoungPendingUntouched ==
    /\ [][\A d \in deposits :
             YoungPending(d)
             => /\ d \in deposits'
                /\ \A i \in (Len(transactions) + 1)..Len(transactions') :
                      transactions'[i].deposit_id # d.id]_vars
    /\ [](\A p \in Procs :
             Promoting(p)
             => \A d \in deposits : d.id = loc[p].deposit_id => ~YoungPending(d))

\* a sweep has gone through its list and credited a deposit while a younger
\* deposit is still pending
C31_Witness ==
    \E p \in Procs :
        /\ loc[p].op = "sweep" /\ pc[p] = "sw_next" /\ loc[p].todo = {}
        /\ \E d, e \in deposits :
              /\ YoungPending(d)
              /\ e.status = "credited"
              /\ d.created_at > e.created_at

\* C32: whenever credit_deposit returns Ok for (deposit_id, account_id,
\* amount), the balance of account_id is exactly amount higher than before
\* and the deposit is credited.
C32_OkMeansBalanceRaised ==
    [][\A p \in Procs :
          CommitSucceeded(p)
          => /\ BalanceOf(account_credits', loc[p].account_id)
                = BalanceOf(account_credits, loc[p].account_id) + loc[p].amount
             /\ account_credits'[loc[p].account_id].exists
             /\ \E d \in deposits' :
                   d.id = loc[p].deposit_id /\ d.status = "credited"]_vars

\* C33: under any interleaving of rotate_address and get_deposit_address
\* calls, the number of payment_addresses rows of an account on a chain never
\* exceeds max_addresses_per_user.
C33_CapUnderConcurrency ==
    \A c \in AddrChains, a \in AddrAccounts :
        count_addresses(payment_addresses, a, c) <= max_addresses_per_user

\* caller p, idle before, takes the step that calls on_deposit
CallbackCalled(p) ==
    /\ pc[p] = "idle"
    /\ loc'[p].op = "on_deposit"
    /\ <<pc[p], loc[p], result[p]>>' # <<pc[p], loc[p], result[p]>>

\* C34: a note whose sub-index matches no payment_addresses row is dropped:
\* on_deposit returns at once, Ok when the lookup itself succeeded, and no
\* deposits row, balance or ledger row changes.
C34_UnknownIndexDropped ==
    [][\A p \in Procs :
          (CallbackCalled(p) /\ \A a \in Accounts : ~OwnsSubIndex(a, loc'[p].idx))
          => /\ pc'[p] = "idle"
             /\ result'[p] \in {"ok: unknown index", "err: storage"}
             /\ UNCHANGED <<deposits, account_credits, transactions>>]_vars

\* on_deposit returned Ok for a note with a sub-index that no row has
C34_Witness ==
    \E p \in Procs :
        /\ pc[p] = "idle"
        /\ loc[p].op = "on_deposit"
        /\ result[p] = "ok: unknown index"
        /\ \A a \in Accounts : ~OwnsSubIndex(a, loc[p].idx)

\* C35: the balance of every account is non-negative in every reachable
\* state, whatever the interleaving of the spending operations.
C35_BalanceNonNegative ==
    \A a \in Accounts : BalanceOf(account_credits, a) >= 0

\* C36: for every ip_hash the free-tier characters consumed within one day
\* never exceed the daily limit of 1000.
C36_FreeTierLimitHolds ==
    \A ip \in IpHashes : free_tier_usage[ip].chars_used <= FREE_TIER_DAILY_LIMIT

\* C37: a job is claimed by at most one worker iteration at a time: no two
\* run_worker tasks hold the same job in their current iteration
C37_OneClaimerPerJob ==
    \A p, q \in Procs : p # q /\ held[p] # 0 => held[p] # held[q]

\* C38: no error path of process_next_job leaves a job in processing with
\* nothing left to move it on: once every run_worker task is in its loop, a
\* job in processing is the job of some iteration
C38_ProcessingJobIsHeld ==
    (\A p \in Procs : pc[p] # "w_start")
        => \A j \in jobs : j.status = "processing"
                               => \E p \in Procs : held[p] = j.id

====
